---- MODULE Spec2Model ----
(***************************************************************************)
(* Model of the Open Data ETL pipeline (Mourad13Git/TP2_Open_Data):        *)
(*   - pipeline/fetcher.py     fetch_page (tenacity retry) and             *)
(*                             fetch_all_data (pagination loop)            *)
(*   - pipeline/transformer.py clean_dataframe (ordered cleaning rules)    *)
(* The fetcher is a state machine (Spec); the cleaner is a pure function   *)
(* applied to tables drawn from a bounded set (SpecClean).                 *)
(***************************************************************************)
EXTENDS Integers, Sequences, FiniteSets, TLC

(***************************************************************************)
(* Program constants (pipeline/config.py, pipeline/fetcher.py)             *)
(***************************************************************************)
MAX_PAGES == 10
API_RATE_LIMIT == 1
STOP_AFTER_ATTEMPT == 3
WAIT_MULTIPLIER == 1
WAIT_MIN == 2
WAIT_MAX == 10

(***************************************************************************)
(* Bounds of the model                                                     *)
(***************************************************************************)
\* number of products on a full page (PAGE_SIZE is 100); the server answers
\* with an empty page, a page of one product or a full page
MaxItems == 2

VARIABLES
    pc,            \* position of fetch_all_data / fetch_page
    page,          \* loop variable of fetch_all_data
    attempt,       \* tenacity attempt_number of the running fetch_page call
    attempt_err,   \* exception of the most recent failed HTTP attempt
    backoffs,      \* backoff waits (seconds) of the running fetch_page call
    data,          \* value returned by fetch_page
    raised,        \* exception raised out of fetch_page
    all_products,  \* accumulator of fetch_all_data
    requested,     \* page numbers passed to fetch_page, in call order
    responses,     \* <<page, product count>> of the calls that returned
    skipped,       \* pages whose handler ran `continue`
    sleeps,        \* <<page, seconds>> of the time.sleep calls of the loop
    ended_by,      \* how the loop ended
    outcome,       \* how fetch_all_data ended
    result         \* the list fetch_all_data returned

fetchVars == <<pc, page, attempt, attempt_err, backoffs, data, raised,
               all_products, requested, responses, skipped, sleeps,
               ended_by, outcome, result>>

VARIABLES
    cpc,           \* position of the cleaning run
    raw_data,      \* the records handed to raw_to_dataframe
    df,            \* the table handed to clean_dataframe
    df_clean,      \* the table clean_dataframe returned
    clean_error    \* the exception that ended the cleaning run

cleanVars == <<cpc, raw_data, df, df_clean, clean_error>>

VARIABLES
    ppc,           \* position of run_pipeline, or of the caller of storage.py
    run,           \* number of the current run (or storage call)
    name,          \* dataset name of the current run
    now,           \* the wall clock, in ticks
    files,         \* the files of data/raw and data/processed
    written,       \* <<run, kind>> of every file created or modified so far
    stages,        \* the stages the current run has completed, in order
    exit_status,   \* status passed to sys.exit, NoExit while none
    output_path,   \* the value run_pipeline (or the storage call) returned
    error,         \* the exception raised in the current run
    call           \* <<function, argument is empty>> of the last storage call

pipeVars == <<ppc, run, name, now, files, written, stages, exit_status,
              output_path, error, call>>

vars == <<fetchVars, cleanVars, pipeVars>>

Min2(a, b) == IF a < b THEN a ELSE b
Max2(a, b) == IF a > b THEN a ELSE b

RECURSIVE Pow2(_)
Pow2(n) == IF n <= 0 THEN 1 ELSE 2 * Pow2(n - 1)

\* the exception classes an HTTP attempt can end with
StatusErrors == {"status404", "status500"}
NetworkErrors == {"timeout", "connect"}
OtherErrors == {"json"}
Errors == StatusErrors \cup NetworkErrors \cup OtherErrors

\* httpx.HTTPError is the base class of HTTPStatusError and of every
\* transport error (TimeoutException included); a JSON decoding error is not
\* an httpx exception.
IsHTTPError(e) == e \in StatusErrors \cup NetworkErrors
IsTimeoutException(e) == e = "timeout"

\* variant: only transport-level failures are retried
RetryIfExceptionType_NetworkOnly(e) == e \in NetworkErrors

\* retry=retry_if_exception_type((httpx.HTTPError, httpx.TimeoutException))
RetryIfExceptionType(e) == IsHTTPError(e) \/ IsTimeoutException(e)

\* stop=stop_after_attempt(3)
StopAfterAttempt(n) == n >= STOP_AFTER_ATTEMPT

\* wait=wait_exponential(multiplier=1, min=2, max=10)
WaitExponential(n) ==
    Max2(Max2(0, WAIT_MIN), Min2(WAIT_MULTIPLIER * Pow2(n - 1), WAIT_MAX))

\* variant: reraise left at its default, tenacity wraps the failure
Reraise_Wrapped(e) == "RetryError"

\* reraise=True: the last attempt's own exception leaves fetch_page
Reraise(e) == e

\* the JSON bodies a successful attempt can carry: a products array of
\* 0..MaxItems entries, or a body without the `products` key
PageSizes == {0, 1, MaxItems}
Bodies == {<<"products", n>> : n \in PageSizes} \cup {<<"nokey", 0>>}
NoBody == <<"none", 0>>

GetProducts_Reversed(body, p) ==
    IF body[1] = "products"
    THEN [i \in 1 .. body[2] |-> <<p, body[2] + 1 - i>>] ELSE <<>>

\* data.get("products", []); a product is identified by its page and its
\* position on the page
GetProducts(body, p) ==
    IF body[1] = "products" THEN [i \in 1 .. body[2] |-> <<p, i>>] ELSE <<>>

\* where the for loop goes after the body of iteration p ran to its end
NextIteration(p) == IF p < MAX_PAGES THEN "loop" ELSE "after_loop"

TypeOK ==
    /\ pc \in {"loop", "attempt", "returned", "raised", "after_loop", "done"}
    /\ page \in 1 .. MAX_PAGES
    /\ attempt \in 0 .. STOP_AFTER_ATTEMPT
    /\ attempt_err \in Errors \cup {"none"}
    /\ raised \in Errors \cup {"none", "RetryError"}
    /\ data \in Bodies \cup {NoBody}
    /\ skipped \subseteq 1 .. MAX_PAGES
    /\ ended_by \in {"running", "empty", "404", "exhausted"}
    /\ outcome \in {"running", "returned", "ValueError"}

FetchInit ==
    /\ pc = "loop"
    /\ page = 1
    /\ attempt = 0
    /\ attempt_err = "none"
    /\ backoffs = <<>>
    /\ data = NoBody
    /\ raised = "none"
    /\ all_products = <<>>
    /\ requested = <<>>
    /\ responses = <<>>
    /\ skipped = {}
    /\ sleeps = <<>>
    /\ ended_by = "running"
    /\ outcome = "running"
    /\ result = <<>>

\* the empty DataFrame, pd.DataFrame()
EmptyTable == [cols |-> {}, dtype |-> <<>>, rows |-> <<>>]

\* no cleaning run is under way
CleanIdle ==
    /\ cpc = "idle"
    /\ raw_data = <<>>
    /\ df = EmptyTable
    /\ df_clean = EmptyTable
    /\ clean_error = "none"

NoExit == 0 - 1
NoPath == <<>>
NoCall == <<"none", FALSE>>

\* no pipeline run is under way and the data directories hold no file
PipeIdle ==
    /\ ppc = "idle"
    /\ run = 0
    /\ name = ""
    /\ now = 0
    /\ files = {}
    /\ written = {}
    /\ stages = <<>>
    /\ exit_status = NoExit
    /\ output_path = NoPath
    /\ error = "none"
    /\ call = NoCall

Init == FetchInit /\ CleanIdle /\ PipeIdle

\* fetcher.py 75-84: the loop builds the parameters of page `page` and calls
\* fetch_page, whose first attempt starts
CallFetchPage ==
    /\ pc = "loop"
    /\ pc' = "attempt"
    /\ requested' = Append(requested, page)
    /\ attempt' = 1
    /\ attempt_err' = "none"
    /\ backoffs' = <<>>
    /\ data' = NoBody
    /\ raised' = "none"
    /\ UNCHANGED <<page, all_products, responses, skipped, sleeps, ended_by,
                   outcome, result>>
    /\ UNCHANGED <<cleanVars, pipeVars>>

\* fetcher.py 42-47: the GET succeeds and fetch_page returns the body
AttemptSucceeds ==
    /\ pc = "attempt"
    /\ \E body \in Bodies :
          /\ data' = body
          /\ responses' = Append(responses,
                                 <<page, Len(GetProducts(body, page))>>)
    /\ pc' = "returned"
    /\ attempt_err' = "none"
    /\ UNCHANGED <<page, attempt, backoffs, raised, all_products, requested,
                   skipped, sleeps, ended_by, outcome, result>>
    /\ UNCHANGED <<cleanVars, pipeVars>>

\* fetcher.py 16-21, 48-56: the attempt raises e; fetch_page logs and
\* re-raises it, and the retry decorator either waits and starts the next
\* attempt or lets the exception out
AttemptFails ==
    /\ pc = "attempt"
    /\ \E e \in Errors :
          /\ attempt_err' = e
          /\ IF RetryIfExceptionType(e) /\ ~StopAfterAttempt(attempt)
             THEN /\ backoffs' = Append(backoffs, WaitExponential(attempt))
                  /\ attempt' = attempt + 1
                  /\ pc' = "attempt"
                  /\ raised' = raised
             ELSE /\ raised' = Reraise(e)
                  /\ pc' = "raised"
                  /\ UNCHANGED <<attempt, backoffs>>
    /\ UNCHANGED <<page, data, all_products, requested, responses, skipped,
                   sleeps, ended_by, outcome, result>>
    /\ UNCHANGED <<cleanVars, pipeVars>>

\* variant: an empty page is passed over instead of ending the loop
HandleProducts_NoBreak ==
    /\ pc = "returned"
    /\ LET products == GetProducts(data, page) IN
       /\ all_products' = all_products \o products
       /\ sleeps' = IF page < MAX_PAGES /\ products # <<>>
                    THEN Append(sleeps, <<page, API_RATE_LIMIT>>)
                    ELSE sleeps
       /\ pc' = NextIteration(page)
       /\ page' = IF page < MAX_PAGES THEN page + 1 ELSE page
       /\ ended_by' = IF page < MAX_PAGES THEN ended_by ELSE "exhausted"
    /\ UNCHANGED <<attempt, attempt_err, backoffs, data, raised, requested,
                   responses, skipped, outcome, result>>
    /\ UNCHANGED <<cleanVars, pipeVars>>

\* fetcher.py 85-96: the products of the page are read; an empty list breaks
\* out of the loop, a non-empty one is appended and followed by the
\* rate-limit sleep unless this was the last configured page
HandleProducts ==
    /\ pc = "returned"
    /\ LET products == GetProducts(data, page) IN
       IF products = <<>>
       THEN /\ pc' = "after_loop"
            /\ ended_by' = "empty"
            /\ UNCHANGED <<page, all_products, sleeps>>
       ELSE /\ all_products' = all_products \o products
            /\ sleeps' = IF page < MAX_PAGES
                         THEN Append(sleeps, <<page, API_RATE_LIMIT>>)
                         ELSE sleeps
            /\ pc' = NextIteration(page)
            /\ page' = IF page < MAX_PAGES THEN page + 1 ELSE page
            /\ ended_by' = IF page < MAX_PAGES THEN ended_by ELSE "exhausted"
    /\ UNCHANGED <<attempt, attempt_err, backoffs, data, raised, requested,
                   responses, skipped, outcome, result>>
    /\ UNCHANGED <<cleanVars, pipeVars>>

\* variant: a 404 is handled like every other status
HandleStatusError_404Continues ==
    /\ pc = "raised"
    /\ raised \in StatusErrors
    /\ skipped' = skipped \cup {page}
    /\ pc' = NextIteration(page)
    /\ page' = IF page < MAX_PAGES THEN page + 1 ELSE page
    /\ ended_by' = IF page < MAX_PAGES THEN ended_by ELSE "exhausted"
    /\ UNCHANGED <<attempt, attempt_err, backoffs, data, raised, all_products,
                   requested, responses, sleeps, outcome, result>>
    /\ UNCHANGED <<cleanVars, pipeVars>>

\* fetcher.py 98-103: except httpx.HTTPStatusError: a 404 breaks out of the
\* loop, any other status continues with the next page
HandleStatusError ==
    /\ pc = "raised"
    /\ raised \in StatusErrors
    /\ IF raised = "status404"
       THEN /\ pc' = "after_loop"
            /\ ended_by' = "404"
            /\ UNCHANGED <<page, skipped>>
       ELSE /\ skipped' = skipped \cup {page}
            /\ pc' = NextIteration(page)
            /\ page' = IF page < MAX_PAGES THEN page + 1 ELSE page
            /\ ended_by' = IF page < MAX_PAGES THEN ended_by ELSE "exhausted"
    /\ UNCHANGED <<attempt, attempt_err, backoffs, data, raised, all_products,
                   requested, responses, sleeps, outcome, result>>
    /\ UNCHANGED <<cleanVars, pipeVars>>

\* variant: the generic handler ends the loop
HandleException_Break ==
    /\ pc = "raised"
    /\ raised \notin StatusErrors
    /\ skipped' = skipped \cup {page}
    /\ pc' = "after_loop"
    /\ ended_by' = "exhausted"
    /\ UNCHANGED <<page, attempt, attempt_err, backoffs, data, raised,
                   all_products, requested, responses, sleeps, outcome, result>>
    /\ UNCHANGED <<cleanVars, pipeVars>>

\* fetcher.py 104-106: except Exception: log and continue with the next page
HandleException ==
    /\ pc = "raised"
    /\ raised \notin StatusErrors
    /\ skipped' = skipped \cup {page}
    /\ pc' = NextIteration(page)
    /\ page' = IF page < MAX_PAGES THEN page + 1 ELSE page
    /\ ended_by' = IF page < MAX_PAGES THEN ended_by ELSE "exhausted"
    /\ UNCHANGED <<attempt, attempt_err, backoffs, data, raised, all_products,
                   requested, responses, sleeps, outcome, result>>
    /\ UNCHANGED <<cleanVars, pipeVars>>

\* variant: the accumulator is returned without the emptiness test
Finish_NoCheck ==
    /\ pc = "after_loop"
    /\ pc' = "done"
    /\ outcome' = "returned"
    /\ result' = all_products
    /\ UNCHANGED <<page, attempt, attempt_err, backoffs, data, raised,
                   all_products, requested, responses, skipped, sleeps,
                   ended_by>>
    /\ UNCHANGED <<cleanVars, pipeVars>>

\* fetcher.py 108-112: nothing accumulated raises ValueError, otherwise the
\* accumulator is returned
Finish ==
    /\ pc = "after_loop"
    /\ pc' = "done"
    /\ IF all_products = <<>>
       THEN /\ outcome' = "ValueError"
            /\ result' = result
       ELSE /\ outcome' = "returned"
            /\ result' = all_products
    /\ UNCHANGED <<page, attempt, attempt_err, backoffs, data, raised,
                   all_products, requested, responses, skipped, sleeps,
                   ended_by>>
    /\ UNCHANGED <<cleanVars, pipeVars>>

Next ==
    \/ CallFetchPage
    \/ AttemptSucceeds
    \/ AttemptFails
    \/ HandleProducts
    \/ HandleStatusError
    \/ HandleException
    \/ Finish

Spec == Init /\ [][Next]_vars

(***************************************************************************)
(* The cleaner: pipeline/transformer.py                                    *)
(*                                                                         *)
(* A value is a pair <<tag, payload>>: <<"null", 0>> (None / NaN),         *)
(* <<"str", s>> with s a sequence of characters, <<"int", n>>,             *)
(* <<"float", h>> for the float h / 2, and <<"list", l>> with l a sequence *)
(* of strings.  A table carries the dtype of each column and its rows.     *)
(***************************************************************************)
Null == <<"null", 0>>
StrV(s) == <<"str", s>>
IntV(n) == <<"int", n>>
FloatV(h) == <<"float", h>>
ListV(l) == <<"list", l>>

IsNull(v) == v[1] = "null"
IsNumber(v) == v[1] \in {"int", "float"}

\* the value of a number in halves
Halves(v) == IF v[1] = "int" THEN 2 * v[2] ELSE v[2]

\* the sentinel written by fillna (transformer.py 161)
SENTINEL == <<"N", "o", "n", " ", "r", "e", "n", "s", "e", "i", "g", "n", "é">>

\* categories of the Nutri-Score column (transformer.py 193)
NUTRISCORE_CATEGORIES ==
    {<<"a">>, <<"b">>, <<"c">>, <<"d">>, <<"e">>,
     <<"n", "o", "n", " ", "r", "e", "n", "s", "e", "i", "g", "n", "é">>}

TEXT_COLS_TO_NORMALIZE == {"product_name", "brands", "categories"}
NUMERIC_COLS_TO_CLEAN ==
    {"energy_100g", "fat_100g", "sugars_100g", "salt_100g", "proteins_100g"}
LIST_COLS == {"categories", "packaging_tags", "labels_tags", "countries_tags"}

\* str.lower() on one character; the upper-case letters of the model's
\* alphabet are A, B and N
LowerChar(c) ==
    CASE c = "A" -> "a"
      [] c = "B" -> "b"
      [] c = "N" -> "n"
      [] OTHER -> c

StrLower(s) == [i \in 1 .. Len(s) |-> LowerChar(s[i])]

RECURSIVE LStrip(_)
LStrip(s) == IF s # <<>> /\ Head(s) = " " THEN LStrip(Tail(s)) ELSE s

RECURSIVE RStrip(_)
RStrip(s) ==
    IF s # <<>> /\ s[Len(s)] = " " THEN RStrip(SubSeq(s, 1, Len(s) - 1)) ELSE s

\* str.strip()
StrStrip(s) == RStrip(LStrip(s))

DIGITS == <<"0", "1", "2", "3", "4", "5", "6", "7", "8", "9">>

RECURSIVE NatToStr(_)
NatToStr(n) ==
    IF n < 10 THEN <<DIGITS[n + 1]>>
    ELSE NatToStr(n \div 10) \o <<DIGITS[(n % 10) + 1]>>

\* str(n) of a Python int
IntToStr(n) == IF n < 0 THEN <<"-">> \o NatToStr(-n) ELSE NatToStr(n)

\* str(x) of a Python float that is a multiple of 0.5
FloatToStr(h) ==
    LET a == IF h < 0 THEN -h ELSE h
        sign == IF h < 0 THEN <<"-">> ELSE <<>>
    IN  sign \o NatToStr(a \div 2) \o <<".">>
             \o (IF a % 2 = 0 THEN <<"0">> ELSE <<"5">>)

RECURSIVE Join(_, _)
Join(sep, l) ==
    IF l = <<>> THEN <<>>
    ELSE IF Len(l) = 1 THEN l[1]
    ELSE l[1] \o sep \o Join(sep, Tail(l))

\* repr of a Python list of strings: ['a', 'b']
ListRepr(l) ==
    <<"[">> \o Join(<<",", " ">>, [i \in 1 .. Len(l) |-> <<"'">> \o l[i] \o <<"'">>])
            \o <<"]">>

\* str(x)
PyStr(v) ==
    CASE v[1] = "str" -> v[2]
      [] v[1] = "int" -> IntToStr(v[2])
      [] v[1] = "float" -> FloatToStr(v[2])
      [] v[1] = "list" -> ListRepr(v[2])
      [] OTHER -> <<"n", "a", "n">>

IsDigit(c) == \E i \in 1 .. 10 : DIGITS[i] = c
DigitVal(c) == (CHOOSE i \in 1 .. 10 : DIGITS[i] = c) - 1

RECURSIVE DigitsToNat(_, _)
DigitsToNat(s, acc) ==
    IF s = <<>> THEN acc ELSE DigitsToNat(Tail(s), 10 * acc + DigitVal(Head(s)))

\* the strings pd.to_numeric parses: an optional sign and decimal digits
IsNumericStr(s) ==
    LET body == IF s # <<>> /\ Head(s) = "-" THEN Tail(s) ELSE s
    IN  body # <<>> /\ \A i \in DOMAIN body : IsDigit(body[i])

ParseInt(s) ==
    IF Head(s) = "-" THEN 0 - DigitsToNat(Tail(s), 0) ELSE DigitsToNat(s, 0)

\* the column c of a table, as a sequence of values
Column(t, c) == [i \in 1 .. Len(t.rows) |-> t.rows[i][c]]

\* the dtype pandas infers for a column built from Python objects
InferDtype(vs) ==
    LET nonnull == {i \in DOMAIN vs : ~IsNull(vs[i])}
    IN  IF nonnull = {} THEN "object"
        ELSE IF \A i \in nonnull : vs[i][1] = "int"
             THEN (IF nonnull = DOMAIN vs THEN "int64" ELSE "float64")
        ELSE IF \A i \in nonnull : IsNumber(vs[i]) THEN "float64"
        ELSE "object"

\* the values of a column once stored under dtype dt
Store(vs, dt) ==
    [i \in DOMAIN vs |->
        IF dt = "float64" /\ IsNumber(vs[i]) THEN FloatV(Halves(vs[i]))
        ELSE vs[i]]

\* pd.DataFrame(raw_data) (transformer.py 26): a field absent from a record
\* and a field that is None are both null
DataFrame(records, cols) ==
    LET field == [c \in cols |-> [i \in 1 .. Len(records) |-> records[i][c]]]
        dtype == [c \in cols |-> InferDtype(field[c])]
        stored == [c \in cols |-> Store(field[c], dtype[c])]
    IN  [cols |-> cols,
         dtype |-> dtype,
         rows |-> [i \in 1 .. Len(records) |-> [c \in cols |-> stored[c][i]]]]

\* df.empty
IsEmpty(t) == t.cols = {} \/ t.rows = <<>>

NUMBER_DTYPES == {"int64", "float64"}

\* df.drop_duplicates(subset=['code'], keep='first') (transformer.py 150):
\* a row goes when an earlier row carries the same code; nulls are equal to
\* each other, the number 12 and the string "12" are not
DropDuplicates(t) ==
    LET kept[i \in 0 .. Len(t.rows)] ==
            IF i = 0 THEN <<>>
            ELSE IF \E j \in 1 .. i - 1 : t.rows[j]["code"] = t.rows[i]["code"]
                 THEN kept[i - 1]
                 ELSE Append(kept[i - 1], t.rows[i])
    IN  [cols |-> t.cols, dtype |-> t.dtype, rows |-> kept[Len(t.rows)]]

\* transformer.py 157-162: fillna("Non renseigné") on the object columns
FillMissingText(t) ==
    [cols |-> t.cols,
     dtype |-> t.dtype,
     rows |-> [i \in 1 .. Len(t.rows) |->
                 [c \in t.cols |->
                    IF t.dtype[c] = "object" /\ IsNull(t.rows[i][c])
                    THEN StrV(SENTINEL)
                    ELSE t.rows[i][c]]]]

RECURSIVE Insert(_, _)
Insert(x, sorted) ==
    IF sorted = <<>> THEN <<x>>
    ELSE IF x <= Head(sorted) THEN <<x>> \o sorted
    ELSE <<Head(sorted)>> \o Insert(x, Tail(sorted))

RECURSIVE Sort(_)
Sort(q) == IF q = <<>> THEN <<>> ELSE Insert(Head(q), Sort(Tail(q)))

\* the non-null numbers of a column, in halves
RECURSIVE NonNullHalves(_)
NonNullHalves(vs) ==
    IF vs = <<>> THEN <<>>
    ELSE IF IsNumber(Head(vs))
         THEN <<Halves(Head(vs))>> \o NonNullHalves(Tail(vs))
         ELSE NonNullHalves(Tail(vs))

\* Series.median() of a non-empty sequence of halves: the middle value, or
\* the mean of the two middle values (exact for the integers and the
\* integer-valued floats the median is taken over here)
Median(hs) ==
    LET q == Sort(hs)
        n == Len(q)
    IN  IF n % 2 = 1 THEN q[(n + 1) \div 2]
        ELSE (q[n \div 2] + q[(n \div 2) + 1]) \div 2

FillNumericColumn_Zero(vs) ==
    [i \in DOMAIN vs |-> IF IsNull(vs[i]) THEN FloatV(0) ELSE vs[i]]

\* transformer.py 167-175 for one numeric column
FillNumericColumn(vs) ==
    LET hs == NonNullHalves(vs)
        fill == IF hs # <<>> THEN FloatV(Median(hs)) ELSE FloatV(0)
    IN  [i \in DOMAIN vs |-> IF IsNull(vs[i]) THEN fill ELSE vs[i]]

\* transformer.py 165-175: the median (or 0) fills the numeric columns
FillMissingNumeric(t) ==
    LET filled == [c \in t.cols |->
                     IF t.dtype[c] \in NUMBER_DTYPES
                     THEN FillNumericColumn(Column(t, c))
                     ELSE Column(t, c)]
    IN  [cols |-> t.cols,
         dtype |-> t.dtype,
         rows |-> [i \in 1 .. Len(t.rows) |-> [c \in t.cols |-> filled[c][i]]]]

\* transformer.py 178-182: astype(str).str.strip().str.lower()
NormalizeText(t) ==
    [cols |-> t.cols,
     dtype |-> [c \in t.cols |->
                  IF c \in TEXT_COLS_TO_NORMALIZE THEN "object" ELSE t.dtype[c]],
     rows |-> [i \in 1 .. Len(t.rows) |->
                 [c \in t.cols |->
                    IF c \in TEXT_COLS_TO_NORMALIZE
                    THEN StrV(StrLower(StrStrip(PyStr(t.rows[i][c]))))
                    ELSE t.rows[i][c]]]]

\* transformer.py 186-187: df_clean['code'].astype(str)
CodeToString(t) ==
    [cols |-> t.cols,
     dtype |-> [c \in t.cols |-> IF c = "code" THEN "object" ELSE t.dtype[c]],
     rows |-> [i \in 1 .. Len(t.rows) |->
                 [c \in t.cols |->
                    IF c = "code" THEN StrV(PyStr(t.rows[i][c]))
                    ELSE t.rows[i][c]]]]

\* pd.Categorical(values, categories=[...]): a value outside the categories
\* becomes NaN
ToCategory(v) ==
    IF v[1] = "str" /\ v[2] \in NUTRISCORE_CATEGORIES THEN v ELSE Null

\* transformer.py 190-195
NutriscoreToCategorical(t) ==
    [cols |-> t.cols,
     dtype |-> [c \in t.cols |->
                  IF c = "nutriscore_grade" THEN "category" ELSE t.dtype[c]],
     rows |-> [i \in 1 .. Len(t.rows) |->
                 [c \in t.cols |->
                    IF c = "nutriscore_grade" THEN ToCategory(t.rows[i][c])
                    ELSE t.rows[i][c]]]]

\* pd.to_numeric(column, errors='coerce') (transformer.py 202): numbers stay,
\* numeric strings are parsed, everything else becomes NaN
ToNumeric(vs, dt) ==
    IF dt \in NUMBER_DTYPES THEN vs
    ELSE LET parsed == [i \in DOMAIN vs |->
                          CASE IsNumber(vs[i]) -> vs[i]
                            [] vs[i][1] = "str" /\ IsNumericStr(vs[i][2])
                                 -> IntV(ParseInt(vs[i][2]))
                            [] OTHER -> Null]
             newdt == IF \A i \in DOMAIN vs : parsed[i][1] = "int"
                      THEN "int64" ELSE "float64"
         IN  Store(parsed, newdt)

ToNumericDtype(vs, dt) ==
    IF dt \in NUMBER_DTYPES THEN dt
    ELSE IF \A i \in DOMAIN vs :
              \/ vs[i][1] = "int"
              \/ vs[i][1] = "str" /\ IsNumericStr(vs[i][2])
         THEN "int64" ELSE "float64"

ClipNegative_Keep(vs) == vs

\* transformer.py 205-208: negative values are set to 0
ClipNegative(vs) ==
    [i \in DOMAIN vs |->
        IF IsNumber(vs[i]) /\ Halves(vs[i]) < 0 THEN <<vs[i][1], 0>>
        ELSE vs[i]]

RECURSIVE SumSeq(_)
SumSeq(q) == IF q = <<>> THEN 0 ELSE Head(q) + SumSeq(Tail(q))

\* the integer square root of x, found by bisection between lo and hi
RECURSIVE IsqrtBetween(_, _, _)
IsqrtBetween(x, lo, hi) ==
    IF lo >= hi THEN lo
    ELSE LET mid == (lo + hi + 1) \div 2
         IN  IF mid * mid <= x THEN IsqrtBetween(x, mid, hi)
                               ELSE IsqrtBetween(x, lo, mid - 1)

Isqrt(x) == IsqrtBetween(x, 0, Min2(x, 46340))

\* transformer.py 211-221 for one column: with n non-null values of sum S
\* and sum of squares Q, std > 0 iff n >= 2 and n*Q - S*S > 0, and
\* |x - mean| > 3 * std iff (n*x - S)^2 * (n - 1) > 9 * n * (n*Q - S*S).
\* The bounds mean -/+ 3 * std are rounded down to the grid of halves.
ClipOutliers(vs) ==
    LET hs == NonNullHalves(vs)
        n == Len(hs)
        S == SumSeq(hs)
        Q == SumSeq([i \in DOMAIN hs |-> hs[i] * hs[i]])
        V == n * Q - S * S
        Far(h) == (n * h - S) * (n * h - S) * (n - 1) > 9 * n * V
        Below(v) == IsNumber(v) /\ n * Halves(v) < S /\ Far(Halves(v))
        Above(v) == IsNumber(v) /\ n * Halves(v) > S /\ Far(Halves(v))
        R == Isqrt((9 * n * V) \div (n - 1))
        lower_bound == FloatV((S - R) \div n)
        upper_bound == FloatV((S + R) \div n)
    IN  IF n >= 2 /\ V > 0 /\ \E i \in DOMAIN vs : Below(vs[i]) \/ Above(vs[i])
        THEN [i \in DOMAIN vs |->
                 IF Below(vs[i]) THEN lower_bound
                 ELSE IF Above(vs[i]) THEN upper_bound
                 ELSE IF IsNumber(vs[i]) THEN FloatV(Halves(vs[i]))
                 ELSE vs[i]]
        ELSE vs

\* transformer.py 200-221 for one nutritional column: the values and the
\* dtype of the column (writing a float bound turns an int64 column into
\* float64)
CleanNumericColumn(vs, dt) ==
    LET coerced == ClipNegative(ToNumeric(vs, dt))
        clipped == ClipOutliers(coerced)
    IN  [values |-> clipped,
         dtype |-> IF clipped = coerced THEN ToNumericDtype(vs, dt)
                                        ELSE "float64"]

\* transformer.py 198-221
CleanNumericColumns(t) ==
    LET cleaned == [c \in t.cols |->
                      IF c \in NUMERIC_COLS_TO_CLEAN
                      THEN CleanNumericColumn(Column(t, c), t.dtype[c])
                      ELSE [values |-> Column(t, c), dtype |-> t.dtype[c]]]
    IN  [cols |-> t.cols,
         dtype |-> [c \in t.cols |-> cleaned[c].dtype],
         rows |-> [i \in 1 .. Len(t.rows) |->
                     [c \in t.cols |-> cleaned[c].values[i]]]]

\* transformer.py 228-230: ', '.join(x) if isinstance(x, list) else str(x)
JoinList(v) ==
    IF v[1] = "list" THEN StrV(Join(<<",", " ">>, v[2])) ELSE StrV(PyStr(v))

\* transformer.py 224-230
FlattenListColumns(t) ==
    [cols |-> t.cols,
     dtype |-> [c \in t.cols |-> IF c \in LIST_COLS THEN "object" ELSE t.dtype[c]],
     rows |-> [i \in 1 .. Len(t.rows) |->
                 [c \in t.cols |->
                    IF c \in LIST_COLS THEN JoinList(t.rows[i][c])
                    ELSE t.rows[i][c]]]]

\* clean_dataframe (transformer.py 116-236): an empty table is returned as it
\* is, drop_duplicates raises KeyError without a `code` column, and the rules
\* run in the order of the source
clean_dataframe(t) ==
    IF IsEmpty(t) THEN [error |-> "none", table |-> t]
    ELSE IF "code" \notin t.cols THEN [error |-> "KeyError", table |-> EmptyTable]
    ELSE [error |-> "none",
          table |-> FlattenListColumns(
                      CleanNumericColumns(
                        NutriscoreToCategorical(
                          CodeToString(
                            NormalizeText(
                              FillMissingNumeric(
                                FillMissingText(
                                  DropDuplicates(t))))))))]

(***************************************************************************)
(* The tables the cleaner is run on                                        *)
(***************************************************************************)
\* largest number of records of an input
MaxRows == 3

COLUMN_VALUES ==
    [code |-> {Null, IntV(12), StrV(<<"1", "2">>), StrV(<<"7">>)},
     product_name |-> {Null, StrV(<<" ", "A">>), StrV(<<"a">>)},
     brands |-> {Null, StrV(<<"B">>)},
     nutriscore_grade |-> {Null, StrV(<<"a">>), StrV(<<"x">>)},
     nova_group |-> {Null, IntV(1), IntV(4)},
     energy_100g |-> {Null, IntV(-5), IntV(8), StrV(<<"x">>)},
     categories |-> {Null, StrV(<<" ", "A">>), ListV(<<<<"a">>, <<"B">>>>)},
     labels_tags |-> {Null, StrV(<<"a">>), ListV(<<<<"a">>, <<"b">>>>)}]

OTHER_COLUMNS == DOMAIN COLUMN_VALUES \ {"code"}

\* the records carry `code` and one further field, or lack `code`
COLUMN_SETS == {{"code", c} : c \in OTHER_COLUMNS} \cup {{"product_name"}}

ALL_VALUES == UNION {COLUMN_VALUES[c] : c \in DOMAIN COLUMN_VALUES}

RecordsOver(cs) ==
    {r \in [cs -> ALL_VALUES] : \A c \in cs : r[c] \in COLUMN_VALUES[c]}

InputRecords ==
    UNION {[1 .. n -> RecordsOver(cs)] : n \in 1 .. MaxRows, cs \in COLUMN_SETS}

\* a cleaning run starts from a list of records, or from the empty DataFrame
\* handed to clean_dataframe directly
InitClean ==
    /\ FetchInit
    /\ PipeIdle
    /\ \/ cpc = "records" /\ raw_data \in InputRecords \cup {<<>>}
       \/ cpc = "table" /\ raw_data = <<>>
    /\ df = EmptyTable
    /\ df_clean = EmptyTable
    /\ clean_error = "none"

\* raw_to_dataframe (transformer.py 13-29)
RawToDataframe ==
    /\ cpc = "records"
    /\ IF raw_data = <<>>
       THEN /\ clean_error' = "ValueError"
            /\ cpc' = "failed"
            /\ df' = df
       ELSE /\ df' = DataFrame(raw_data, DOMAIN raw_data[1])
            /\ cpc' = "table"
            /\ clean_error' = clean_error
    /\ UNCHANGED <<raw_data, df_clean>>
    /\ UNCHANGED <<fetchVars, pipeVars>>

\* clean_dataframe (transformer.py 116-236)
CleanDataframe ==
    /\ cpc = "table"
    /\ LET r == clean_dataframe(df) IN
          /\ clean_error' = r.error
          /\ df_clean' = r.table
          /\ cpc' = IF r.error = "none" THEN "cleaned" ELSE "failed"
    /\ UNCHANGED <<raw_data, df>>
    /\ UNCHANGED <<fetchVars, pipeVars>>

NextClean ==
    \/ RawToDataframe
    \/ CleanDataframe

SpecClean == InitClean /\ [][NextClean]_vars

(***************************************************************************)
(* Cleaning runs over tables long enough for the outlier rule to act: the  *)
(* rule compares with mean -/+ 3 std, which no value of a column of fewer  *)
(* than 11 values exceeds.                                                 *)
(***************************************************************************)
MaxColumnRows == 11

\* the energy_100g values a long column is made of
LONG_COLUMN_VALUES == <<IntV(-5), IntV(8), IntV(200), Null>>

\* a copies of the first value, then b of the second, c of the third and d
\* of the fourth
Repeated(a, b, c, d) ==
    [i \in 1 .. a + b + c + d |->
        IF i <= a THEN LONG_COLUMN_VALUES[1]
        ELSE IF i <= a + b THEN LONG_COLUMN_VALUES[2]
        ELSE IF i <= a + b + c THEN LONG_COLUMN_VALUES[3]
        ELSE LONG_COLUMN_VALUES[4]]

\* records with distinct codes and the given energy_100g values
LongRecords(vs) ==
    [i \in DOMAIN vs |-> [code |-> StrV(NatToStr(i)), energy_100g |-> vs[i]]]

LongInputRecords ==
    {LongRecords(Repeated(a, b, c, d)) :
        <<a, b, c, d>> \in
            {q \in (0 .. MaxColumnRows) \X (0 .. MaxColumnRows)
                     \X (0 .. MaxColumnRows) \X (0 .. MaxColumnRows) :
                q[1] + q[2] + q[3] + q[4] \in 1 .. MaxColumnRows}}

InitLong ==
    /\ FetchInit
    /\ PipeIdle
    /\ cpc = "records"
    /\ raw_data \in LongInputRecords
    /\ df = EmptyTable
    /\ df_clean = EmptyTable
    /\ clean_error = "none"

SpecLong == InitLong /\ [][NextClean]_vars

(***************************************************************************)
(* storage.py and run_pipeline (main.py)                                   *)
(***************************************************************************)
MaxRuns == 2
MaxClock == 3

\* the clock advances in ticks of half a second
TICKS_PER_SECOND == 2

RAW_DIR == "data/raw"
PROCESSED_DIR == "data/processed"

\* dataset names given to --name
NAMES == {"products", "chocolats"}

\* datetime.now().strftime("%Y%m%d_%H%M%S") (storage.py 28, 63): the time
\* of the call, cut to the whole second
Timestamp(t) == t \div TICKS_PER_SECOND

\* DIR / f"{name}_{timestamp}{ext}" (storage.py 29, 64)
FilePath(dir, nm, t, ext) == <<dir, nm, Timestamp(t), ext>>

\* open(filepath, "w") and DataFrame.to_parquet create the file or replace
\* the one already at that path; `complete` tells whether the whole content
\* was written
WriteFile(fs, path, r, complete) ==
    {f \in fs : f.path # path}
        \cup {[path |-> path, run |-> r, complete |-> complete]}

\* how the write goes: it succeeds, the file cannot be opened, or the write
\* fails after the file was opened
IO_OUTCOMES == {"ok", "open_error", "write_error"}

\* the body of the try of storage.py 31-40 and 66-82, run by writer r
WriteResult(filepath, r, io) ==
    CASE io = "ok" ->
            [raised |-> "none", path |-> filepath,
             files |-> WriteFile(files, filepath, r, TRUE)]
      [] io = "open_error" ->
            [raised |-> "OSError", path |-> NoPath, files |-> files]
      [] OTHER ->
            [raised |-> "OSError", path |-> NoPath,
             files |-> WriteFile(files, filepath, r, FALSE)]

save_raw_json_NoCheck(records, nm, r, io) ==
    WriteResult(FilePath(RAW_DIR, nm, now, ".json"), r, io)

\* save_raw_json (storage.py 14-40)
save_raw_json(records, nm, r, io) ==
    IF records = <<>>
    THEN [raised |-> "ValueError", path |-> NoPath, files |-> files]
    ELSE WriteResult(FilePath(RAW_DIR, nm, now, ".json"), r, io)

\* save_parquet (storage.py 43-82)
save_parquet(t, nm, r, io) ==
    IF IsEmpty(t)
    THEN [raised |-> "ValueError", path |-> NoPath, files |-> files]
    ELSE WriteResult(FilePath(PROCESSED_DIR, nm, now, ".parquet"), r, io)

\* the file kinds a storage call created or modified
Touched(r, kind, res) ==
    IF res.files = files THEN written ELSE written \cup {<<r, kind>>}

\* record lists fetch_all_data may return: one product, two products with
\* the same code, a product without code
PIPELINE_RECORDS ==
    {<<[code |-> StrV(<<"7">>), product_name |-> StrV(<<" ", "A">>)]>>,
     <<[code |-> IntV(12), product_name |-> Null],
       [code |-> IntV(12), product_name |-> StrV(<<"a">>)]>>,
     <<[product_name |-> StrV(<<"a">>)]>>}

\* time passes between any two steps
Tick ==
    /\ now < MaxClock
    /\ now' = now + 1
    /\ UNCHANGED <<ppc, run, name, files, written, stages, exit_status,
                   output_path, error, call>>
    /\ UNCHANGED <<fetchVars, cleanVars>>

\* the except clauses of run_pipeline (main.py 55-60): both log the
\* exception and call sys.exit(1)
ExceptExit(e) ==
    /\ ppc' = "exited"
    /\ error' = e
    /\ exit_status' = 1
    /\ output_path' = NoPath

\* a process calls run_pipeline(category, name) (main.py 103)
StartRun ==
    /\ ppc \in {"idle", "returned", "exited"}
    /\ run < MaxRuns
    /\ run' = run + 1
    /\ name' \in NAMES
    /\ ppc' = "fetch"
    /\ stages' = <<>>
    /\ exit_status' = NoExit
    /\ output_path' = NoPath
    /\ error' = "none"
    /\ raw_data' = <<>>
    /\ df' = EmptyTable
    /\ df_clean' = EmptyTable
    /\ UNCHANGED <<now, files, written, call, cpc, clean_error>>
    /\ UNCHANGED fetchVars

\* main.py 33: fetch_all_data returns a non-empty list or raises ValueError
PipelineFetch ==
    /\ ppc = "fetch"
    /\ \/ /\ raw_data' \in PIPELINE_RECORDS
          /\ stages' = Append(stages, "fetch")
          /\ ppc' = "save_raw"
          /\ UNCHANGED <<exit_status, output_path, error>>
       \/ /\ ExceptExit("ValueError")
          /\ UNCHANGED <<raw_data, stages>>
    /\ UNCHANGED <<run, name, now, files, written, call>>
    /\ UNCHANGED <<cpc, df, df_clean, clean_error>>
    /\ UNCHANGED fetchVars

PipelineSaveRaw_Continue ==
    /\ ppc = "save_raw"
    /\ \E io \in IO_OUTCOMES :
          LET res == save_raw_json(raw_data, name, run, io) IN
             /\ files' = res.files
             /\ written' = Touched(run, "raw", res)
             /\ stages' = IF res.raised = "none"
                          THEN Append(stages, "save_raw") ELSE stages
             /\ ppc' = "build"
             /\ UNCHANGED <<exit_status, output_path, error>>
    /\ UNCHANGED <<run, name, now, call>>
    /\ UNCHANGED cleanVars
    /\ UNCHANGED fetchVars

\* main.py 34: save_raw_json(raw_data, name)
PipelineSaveRaw ==
    /\ ppc = "save_raw"
    /\ \E io \in IO_OUTCOMES :
          LET res == save_raw_json(raw_data, name, run, io) IN
             /\ files' = res.files
             /\ written' = Touched(run, "raw", res)
             /\ IF res.raised = "none"
                THEN /\ stages' = Append(stages, "save_raw")
                     /\ ppc' = "build"
                     /\ UNCHANGED <<exit_status, output_path, error>>
                ELSE /\ ExceptExit(res.raised)
                     /\ UNCHANGED stages
    /\ UNCHANGED <<run, name, now, call>>
    /\ UNCHANGED cleanVars
    /\ UNCHANGED fetchVars

\* main.py 39: raw_to_dataframe(raw_data)
PipelineBuild ==
    /\ ppc = "build"
    /\ IF raw_data = <<>>
       THEN /\ ExceptExit("ValueError")
            /\ UNCHANGED <<df, stages>>
       ELSE /\ df' = DataFrame(raw_data, DOMAIN raw_data[1])
            /\ stages' = Append(stages, "build")
            /\ ppc' = "clean"
            /\ UNCHANGED <<exit_status, output_path, error>>
    /\ UNCHANGED <<run, name, now, files, written, call>>
    /\ UNCHANGED <<cpc, raw_data, df_clean, clean_error>>
    /\ UNCHANGED fetchVars

PipelineClean_Swallow ==
    /\ ppc = "clean"
    /\ LET r == clean_dataframe(df) IN
          /\ df_clean' = r.table
          /\ IF r.error = "none"
             THEN /\ stages' = Append(stages, "clean")
                  /\ ppc' = "save_parquet"
                  /\ UNCHANGED <<exit_status, output_path, error>>
             ELSE /\ ppc' = "returned"
                  /\ error' = r.error
                  /\ UNCHANGED <<exit_status, output_path, stages>>
    /\ UNCHANGED <<run, name, now, files, written, call>>
    /\ UNCHANGED <<cpc, raw_data, df, clean_error>>
    /\ UNCHANGED fetchVars

\* main.py 40: clean_dataframe(df)
PipelineClean ==
    /\ ppc = "clean"
    /\ LET r == clean_dataframe(df) IN
          /\ df_clean' = r.table
          /\ IF r.error = "none"
             THEN /\ stages' = Append(stages, "clean")
                  /\ ppc' = "save_parquet"
                  /\ UNCHANGED <<exit_status, output_path, error>>
             ELSE /\ ExceptExit(r.error)
                  /\ UNCHANGED stages
    /\ UNCHANGED <<run, name, now, files, written, call>>
    /\ UNCHANGED <<cpc, raw_data, df, clean_error>>
    /\ UNCHANGED fetchVars

\* main.py 45-53: save_parquet(df_clean, name), then return output_path
PipelineSaveParquet ==
    /\ ppc = "save_parquet"
    /\ \E io \in IO_OUTCOMES :
          LET res == save_parquet(df_clean, name, run, io) IN
             /\ files' = res.files
             /\ written' = Touched(run, "processed", res)
             /\ IF res.raised = "none"
                THEN /\ stages' = Append(stages, "save_parquet")
                     /\ ppc' = "returned"
                     /\ output_path' = res.path
                     /\ UNCHANGED <<exit_status, error>>
                ELSE /\ ExceptExit(res.raised)
                     /\ UNCHANGED stages
    /\ UNCHANGED <<run, name, now, call>>
    /\ UNCHANGED cleanVars
    /\ UNCHANGED fetchVars

NextPipeline ==
    \/ StartRun
    \/ PipelineFetch
    \/ PipelineSaveRaw
    \/ PipelineBuild
    \/ PipelineClean
    \/ PipelineSaveParquet
    \/ Tick

SpecPipeline == Init /\ [][NextPipeline]_vars

(***************************************************************************)
(* The storage functions called directly, as the tests do                  *)
(***************************************************************************)
\* tables handed to save_parquet: pd.DataFrame(), a table with a column and
\* no row, and cleaned tables
STORAGE_TABLES ==
    {EmptyTable, [cols |-> {"code"}, dtype |-> [code |-> "object"], rows |-> <<>>]}
        \cup {clean_dataframe(DataFrame(r, DOMAIN r[1])).table :
                 r \in {q \in PIPELINE_RECORDS : "code" \in DOMAIN q[1]}}

\* one call save_raw_json(data, name)
CallSaveRawJson ==
    /\ run < MaxRuns
    /\ run' = run + 1
    /\ \E d \in PIPELINE_RECORDS \cup {<<>>}, nm \in NAMES, io \in IO_OUTCOMES :
          LET res == save_raw_json(d, nm, run + 1, io) IN
             /\ name' = nm
             /\ call' = <<"save_raw_json", d = <<>>>>
             /\ files' = res.files
             /\ written' = Touched(run + 1, "raw", res)
             /\ error' = res.raised
             /\ output_path' = res.path
    /\ UNCHANGED <<ppc, now, stages, exit_status>>
    /\ UNCHANGED <<fetchVars, cleanVars>>

\* one call save_parquet(df, name)
CallSaveParquet ==
    /\ run < MaxRuns
    /\ run' = run + 1
    /\ \E t \in STORAGE_TABLES, nm \in NAMES, io \in IO_OUTCOMES :
          LET res == save_parquet(t, nm, run + 1, io) IN
             /\ name' = nm
             /\ call' = <<"save_parquet", IsEmpty(t)>>
             /\ files' = res.files
             /\ written' = Touched(run + 1, "processed", res)
             /\ error' = res.raised
             /\ output_path' = res.path
    /\ UNCHANGED <<ppc, now, stages, exit_status>>
    /\ UNCHANGED <<fetchVars, cleanVars>>

NextStorage ==
    \/ CallSaveRawJson
    \/ CallSaveParquet
    \/ Tick

SpecStorage == Init /\ [][NextStorage]_vars


(***************************************************************************)
(* Properties of the fetcher                                               *)
(***************************************************************************)
RECURSIVE SumLeadingNonEmpty(_)
SumLeadingNonEmpty(rs) ==
    IF rs = <<>> \/ Head(rs)[2] = 0 THEN 0
    ELSE Head(rs)[2] + SumLeadingNonEmpty(Tail(rs))

RECURSIVE SumCounts(_)
SumCounts(rs) == IF rs = <<>> THEN 0 ELSE Head(rs)[2] + SumCounts(Tail(rs))

SeqRange(q) == {q[i] : i \in DOMAIN q}

\* C1: when at least one of the page responses of a run is non-empty,
\* fetch_all_data returns a list whose length is the sum of the product counts
\* of the consecutive non-empty responses, up to the first empty response or
\* the MAX_PAGES limit.
C1_LengthIsSumOfNonEmptyPages ==
    (pc = "done" /\ \E i \in DOMAIN responses : responses[i][2] > 0)
        => /\ outcome = "returned"
           /\ Len(result) = SumLeadingNonEmpty(responses)

C1_Witness ==
    /\ pc = "done"
    /\ outcome = "returned"
    /\ Len(responses) = 4
    /\ responses[1][2] = MaxItems /\ responses[2][2] = 1
    /\ responses[3][2] = MaxItems /\ responses[4][2] = 0
    /\ Len(result) = 2 * MaxItems + 1

\* C2: pagination stops at the first empty page: once page k answered with an
\* empty product list, the pages requested are exactly 1..k, each once, and no
\* page is requested after k; full pages on 1..3 and an empty page 4 give
\* 3 * MaxItems records and exactly 4 page requests.
C2_StopsAtFirstEmptyPage ==
    /\ \A i \in DOMAIN responses :
          responses[i][2] = 0
              => /\ Len(requested) = responses[i][1]
                 /\ \A j \in DOMAIN requested : requested[j] = j
    /\ (pc = "done" /\ responses = <<<<1, MaxItems>>, <<2, MaxItems>>,
                                     <<3, MaxItems>>, <<4, 0>>>>)
          => /\ outcome = "returned"
             /\ Len(result) = 3 * MaxItems
             /\ Len(requested) = 4

C2_Witness ==
    /\ pc = "done"
    /\ responses = <<<<1, MaxItems>>, <<2, MaxItems>>, <<3, MaxItems>>,
                     <<4, 0>>>>
    /\ requested = <<1, 2, 3, 4>>

\* C3: a run that ends with nothing accumulated fails with the no-data
\* ValueError and returns no list; a returned list is never empty.
C3_NoDataIsAnError ==
    pc = "done"
        => /\ all_products = <<>> => (outcome = "ValueError" /\ result = <<>>)
           /\ outcome = "returned" => result # <<>>
           /\ outcome \in {"returned", "ValueError"}

C3_Witness ==
    /\ pc = "done"
    /\ outcome = "ValueError"
    /\ skipped # {}
    /\ ended_by = "404"

\* C4 (as stated): an attempt that ends with a 4xx/5xx status error is the
\* only attempt of its kind: the status error leaves fetch_page at once, with
\* no further attempt and no backoff wait.
C4_StatusErrorNotRetried ==
    [][(pc = "attempt" /\ pc' # "returned" /\ attempt_err' \in StatusErrors)
          => /\ pc' = "raised"
             /\ raised' = attempt_err'
             /\ attempt' = attempt
             /\ backoffs' = backoffs]_vars

\* C4 (amended): a status error is retried like a network failure; it leaves
\* fetch_page only from the third attempt, after two backoff waits, and every
\* exception that is not an httpx.HTTPError leaves at the attempt it occurs in.
C4_StatusErrorRetriedUpToLimit ==
    /\ [](pc = "raised" /\ raised \in StatusErrors
             => /\ attempt = STOP_AFTER_ATTEMPT
                /\ Len(backoffs) = STOP_AFTER_ATTEMPT - 1
                /\ raised = attempt_err)
    /\ [][(pc = "attempt" /\ pc' # "returned"
              /\ attempt_err' \in StatusErrors /\ attempt < STOP_AFTER_ATTEMPT)
             => /\ pc' = "attempt"
                /\ attempt' = attempt + 1
                /\ Len(backoffs') = Len(backoffs) + 1]_vars
    /\ [][(pc = "attempt" /\ pc' # "returned" /\ attempt_err' \in OtherErrors)
             => /\ pc' = "raised"
                /\ raised' = attempt_err'
                /\ attempt' = attempt
                /\ backoffs' = backoffs]_vars

C4_Witness ==
    /\ pc = "raised"
    /\ raised = "status500"
    /\ attempt = 3
    /\ backoffs = <<2, 2>>

\* C5: a fetch_page call makes between 1 and 3 HTTP attempts; a network or
\* timeout failure on attempt 1 or 2 is followed by another attempt; a
\* successful attempt ends the call with its data; after a failed third attempt
\* the attempt's own exception, not a wrapper, leaves fetch_page.
C5_BoundedRetry ==
    /\ [](pc \in {"attempt", "returned", "raised"}
             => attempt \in 1 .. STOP_AFTER_ATTEMPT)
    /\ [](pc = "raised" => raised = attempt_err /\ raised \in Errors)
    /\ [](pc = "returned" => data \in Bodies /\ raised = "none")
    /\ [][(pc = "attempt" /\ pc' # "returned"
              /\ attempt_err' \in NetworkErrors /\ attempt < STOP_AFTER_ATTEMPT)
             => pc' = "attempt" /\ attempt' = attempt + 1]_vars
    /\ [][pc = "returned" => pc' # "attempt" /\ attempt' = attempt]_vars
    /\ [][(pc = "attempt" /\ pc' # "returned" /\ attempt = STOP_AFTER_ATTEMPT)
             => pc' = "raised" /\ raised' = attempt_err']_vars

C5_Witness ==
    /\ pc = "raised"
    /\ raised = "timeout"
    /\ attempt = 3
    /\ Len(backoffs) = 2

\* C6: a 404 raised for page p ends pagination: no later page is requested,
\* the run does not fail with the 404, and when earlier pages gave records the
\* run returns exactly those records.
C6_NotFoundEndsPagination ==
    (raised = "status404" /\ pc # "raised" /\ pc # "attempt")
        => /\ pc \in {"after_loop", "done"}
           /\ requested[Len(requested)] = page
           /\ Len(requested) = page
           /\ pc = "done"
                => /\ outcome \in {"returned", "ValueError"}
                   /\ all_products # <<>>
                        => /\ outcome = "returned"
                           /\ result = all_products
                           /\ Len(result) = SumCounts(responses)
                           /\ \A i \in DOMAIN result : result[i][1] < page

C6_Witness ==
    /\ pc = "done"
    /\ raised = "status404"
    /\ outcome = "returned"
    /\ page = 3
    /\ Len(result) = MaxItems + 1

\* C7: a page failure other than a 404 is not fatal: the page contributes no
\* record, the records of earlier pages are kept, and below MAX_PAGES the loop
\* goes on with the next page.
C7_PageFailureIsSkipped ==
    /\ [](\A p \in skipped :
             /\ \A i \in DOMAIN all_products : all_products[i][1] # p
             /\ p < MAX_PAGES
                  => \/ p + 1 \in SeqRange(requested)
                     \/ pc = "loop" /\ page = p + 1)
    /\ [][(pc = "raised" /\ raised # "status404")
             => /\ all_products' = all_products
                /\ outcome' = "running"
                /\ page \in skipped'
                /\ IF page < MAX_PAGES
                   THEN pc' = "loop" /\ page' = page + 1
                   ELSE pc' = "after_loop"]_vars

C7_Witness ==
    /\ pc = "attempt"
    /\ page = 3
    /\ skipped = {2}
    /\ all_products # <<>>
    /\ requested = <<1, 2, 3>>

\* C8 (as stated): between any two consecutive page requests of a run a sleep
\* of the rate-limit interval occurs, whatever happened to the earlier page,
\* and no sleep follows page MAX_PAGES.
C8_SleepBetweenAllRequests ==
    /\ \A i \in DOMAIN requested :
          i > 1 => <<requested[i - 1], API_RATE_LIMIT>> \in SeqRange(sleeps)
    /\ \A i \in DOMAIN sleeps : sleeps[i][1] < MAX_PAGES


(***************************************************************************)
(* Properties of the cleaner                                               *)
(***************************************************************************)
\* C9 (as stated): after clean_dataframe the `code` column holds no duplicate
\* value, whatever the input table: any two distinct rows of the result differ
\* in their code.
C9_NoDuplicateCodes ==
    (cpc = "cleaned" /\ "code" \in df_clean.cols)
        => \A i, j \in 1 .. Len(df_clean.rows) :
              i # j => df_clean.rows[i]["code"] # df_clean.rows[j]["code"]

\* C10 (as stated): after clean_dataframe no column with a fill rule (the
\* text-typed and the numeric-typed columns of the input) holds a null.
C10_NoNullInFilledColumns ==
    cpc = "cleaned"
        => \A c \in df.cols :
              df.dtype[c] \in {"object"} \cup NUMBER_DTYPES
                  => \A i \in 1 .. Len(df_clean.rows) :
                        ~IsNull(df_clean.rows[i][c])

\* C11 (as stated): clean_dataframe is idempotent: cleaning the cleaned table
\* again gives the same table (same rows, same order, same values), and does
\* not fail.
C11_CleanIsIdempotent ==
    cpc = "cleaned"
        => LET again == clean_dataframe(df_clean)
           IN  again.error = "none" /\ again.table.rows = df_clean.rows

\* C12 (as stated): clean_dataframe never fails, whatever the input table
\* (empty or not, with or without a `code` column): the only failure of a
\* cleaning run is the ValueError of raw_to_dataframe on an empty record list;
\* an empty table is returned unchanged.
C12_CleanNeverFails ==
    /\ cpc = "failed" => clean_error = "ValueError" /\ raw_data = <<>>
    /\ (cpc = "cleaned" /\ IsEmpty(df)) => df_clean = df

\* the rows of t that are the earliest carrier of their code, in input order
FirstOccurrences(t) ==
    LET first(i) == \A j \in 1 .. i - 1 : t.rows[j]["code"] # t.rows[i]["code"]
        sel[i \in 0 .. Len(t.rows)] ==
            IF i = 0 THEN <<>>
            ELSE IF first(i) THEN Append(sel[i - 1], t.rows[i]) ELSE sel[i - 1]
    IN  [cols |-> t.cols, dtype |-> t.dtype, rows |-> sel[Len(t.rows)]]

\* C13 (as stated): the cleaned table is made of the earliest input row of
\* each code value, in input order, and holds exactly one row with the code
\* of each of them.
C13_DedupKeepsFirst ==
    (cpc = "cleaned" /\ "code" \in df.cols)
        => /\ df_clean = clean_dataframe(FirstOccurrences(df)).table
           /\ Len(df_clean.rows) = Len(FirstOccurrences(df).rows)
           /\ \A k \in 1 .. Len(df_clean.rows) :
                 Cardinality({j \in 1 .. Len(df_clean.rows) :
                     df_clean.rows[j]["code"] = df_clean.rows[k]["code"]}) = 1

\* C14 (as stated): in every text-typed column of the input a null entry is
\* replaced with the one sentinel string, the same in every column, and a
\* string entry is left unchanged, except in product_name, brands and
\* categories where it is trimmed and lower-cased.
C14_TextFillAndNormalize ==
    (cpc = "cleaned" /\ "code" \in df.cols)
        => LET kept == FirstOccurrences(df).rows IN
           \A k \in 1 .. Len(kept) : \A c \in df.cols :
              df.dtype[c] = "object"
                  => LET old == kept[k][c]
                         new == df_clean.rows[k][c]
                     IN  /\ IsNull(old) => new = StrV(SENTINEL)
                         /\ old[1] = "str"
                               => new = IF c \in TEXT_COLS_TO_NORMALIZE
                                        THEN StrV(StrLower(StrStrip(old[2])))
                                        ELSE old

\* C15 (as stated): after clean_dataframe the nutriscore_grade of every row is
\* one of the six values a, b, c, d, e and the sentinel, and a row whose grade
\* was missing carries the sentinel member.
C15_NutriscoreInDomain ==
    (cpc = "cleaned" /\ "nutriscore_grade" \in df.cols)
        => LET kept == FirstOccurrences(df).rows IN
           \A k \in 1 .. Len(df_clean.rows) :
              LET new == df_clean.rows[k]["nutriscore_grade"] IN
                 /\ new[1] = "str" /\ new[2] \in NUTRISCORE_CATEGORIES
                 /\ IsNull(kept[k]["nutriscore_grade"])
                       => new = StrV(StrLower(SENTINEL))

\* the table the nutritional rule (transformer.py 198-221) starts from
BeforeNumericRule(t) ==
    NutriscoreToCategorical(CodeToString(NormalizeText(
        FillMissingNumeric(FillMissingText(DropDuplicates(t))))))

STAGE_ORDER == <<"fetch", "save_raw", "build", "clean", "save_parquet">>

\* C17: in every run the completed stages are a prefix of fetch, raw-snapshot
\* write, table construction, clean, columnar write, and the stage about to
\* start is the one after that prefix (a stage starts only after the previous
\* ones succeeded); a run that touched a processed file has written its raw
\* snapshot before; a run whose fetch failed has touched no file.
C17_StagesInOrder ==
    /\ stages = SubSeq(STAGE_ORDER, 1, Len(stages))
    /\ \A k \in 1 .. Len(STAGE_ORDER) :
          ppc = STAGE_ORDER[k] => Len(stages) = k - 1
    /\ ppc = "returned" => stages = STAGE_ORDER
    /\ \A r \in 1 .. run :
          <<r, "processed">> \in written => <<r, "raw">> \in written
    /\ <<run, "processed">> \in written
          => /\ Len(stages) >= 4
             /\ \E f \in files : f.path[1] = RAW_DIR /\ f.complete
    /\ (ppc = "exited" /\ stages = <<>>)
          => \A kind \in {"raw", "processed"} : <<run, kind>> \notin written

\* a second run has returned after writing both of its files, and an earlier
\* run ended at a failed fetch
C17_Witness ==
    /\ ppc = "returned"
    /\ run = 2
    /\ written = {<<2, "raw">>, <<2, "processed">>}

\* C18: a run of run_pipeline ends in one of two ways and never in both: it
\* returns the path of a processed file this run wrote completely, with no
\* exception and no exit status, or the process exits with status 1 and
\* nothing is returned; once a stage has raised, the run is at the exit.
C18_ReturnsPathOrExitsOne ==
    /\ exit_status \in {NoExit, 1}
    /\ ppc = "returned"
          => /\ exit_status = NoExit
             /\ error = "none"
             /\ \E f \in files :
                   /\ f.path = output_path
                   /\ f.path[1] = PROCESSED_DIR
                   /\ f.run = run
                   /\ f.complete
    /\ ppc = "exited"
          => /\ exit_status = 1
             /\ error # "none"
             /\ output_path = NoPath
    /\ error # "none" => ppc = "exited"
    /\ exit_status = 1 => ppc = "exited"

\* a run ended with exit status 1 on an error that is not a validation
\* error, after its raw snapshot was written
C18_Witness ==
    /\ ppc = "exited"
    /\ exit_status = 1
    /\ error = "KeyError"
    /\ <<run, "raw">> \in written

\* C19 (as stated): no run overwrites a file written by an earlier run: a
\* file, once written by a run, stays the file of that run at each step of
\* every later run, also when the runs share the dataset name and the clock
\* second.
C19_NoOverwrite ==
    [][\A f \in files : \E g \in files' : g.path = f.path /\ g.run = f.run]_vars

\* C20: a call of save_raw_json with an empty record list, or of save_parquet
\* with an empty table, raises ValueError, returns no path, and leaves every
\* file as it was: none created, none modified.
C20_EmptyInputTouchesNoFile ==
    [][(run' = run + 1 /\ call'[2])
          => /\ call'[1] \in {"save_raw_json", "save_parquet"}
             /\ error' = "ValueError"
             /\ output_path' = NoPath
             /\ files' = files
             /\ written' = written]_vars

\* save_parquet was called with an empty table while the directories hold a
\* file of an earlier call
C20_Witness ==
    /\ call = <<"save_parquet", TRUE>>
    /\ error = "ValueError"
    /\ run = 2
    /\ files # {}

\* C21 (as stated): in each of the columns categories, packaging_tags,
\* labels_tags and countries_tags a list entry of the input becomes its
\* elements joined by ", " and a non-null entry that is no list becomes its
\* plain string form, in categories as in the other three.
C21_ListColumnsJoined ==
    (cpc = "cleaned" /\ "code" \in df.cols)
        => LET kept == FirstOccurrences(df).rows IN
           \A k \in 1 .. Len(kept) : \A c \in df.cols \cap LIST_COLS :
              LET old == kept[k][c]
                  new == df_clean.rows[k][c]
              IN  /\ old[1] = "list" => new = StrV(Join(<<",", " ">>, old[2]))
                  /\ (~IsNull(old) /\ old[1] # "list") => new = StrV(PyStr(old))

\* the column c of the deduplicated table t with each null replaced by the
\* median of the non-null values of that column, or by 0 when there is none
MedianFilled(t, c) ==
    LET col == Column(DropDuplicates(t), c)
        hs == NonNullHalves(col)
        fill == IF hs = <<>> THEN FloatV(0) ELSE FloatV(Median(hs))
    IN  [i \in DOMAIN col |-> IF IsNull(col[i]) THEN fill ELSE col[i]]

RECURSIVE ConcatPages(_)
ConcatPages(rs) ==
    IF rs = <<>> THEN <<>>
    ELSE [i \in 1 .. Head(rs)[2] |-> <<Head(rs)[1], i>>] \o ConcatPages(Tail(rs))

\* C23: fetch_all_data calls fetch_page for the pages 1, 2, 3, ... in turn,
\* each once and none beyond MAX_PAGES; the responses come in page order, an
\* empty response (no product, or no `products` key) is the last one; the
\* list returned is the concatenation, in page order and in-page order, of
\* the products of the responses.
C23_PagesInOrderAndConcatenated ==
    /\ \A j \in DOMAIN requested : requested[j] = j
    /\ Len(requested) <= MAX_PAGES
    /\ \A i, j \in DOMAIN responses : i < j => responses[i][1] < responses[j][1]
    /\ \A i \in DOMAIN responses :
          /\ responses[i][1] \in SeqRange(requested)
          /\ responses[i][2] = 0
                => i = Len(responses) /\ Len(requested) = responses[i][1]
    /\ pc = "done" => all_products = ConcatPages(responses)
    /\ outcome = "returned" => result = ConcatPages(responses)

\* a run returned the products of page 1 and the product of page 3, page 2
\* having failed and page 4 having answered without a `products` key
C23_Witness ==
    /\ pc = "done"
    /\ outcome = "returned"
    /\ requested = <<1, 2, 3, 4>>
    /\ skipped = {2}
    /\ data = <<"nokey", 0>>
    /\ responses = <<<<1, MaxItems>>, <<3, 1>>, <<4, 0>>>>
    /\ Len(result) = MaxItems + 1
    /\ \A i \in 1 .. MaxItems : result[i] = <<1, i>>
    /\ result[MaxItems + 1] = <<3, 1>>

(***************************************************************************)
(* verify_data.py: the data-quality queries over the processed table       *)
(***************************************************************************)
\* the literal 'Non renseigné' of the queries (verify_data.py 94, 110, 111)
VERIFY_SENTINEL ==
    <<"N", "o", "n", " ", "r", "e", "n", "s", "e", "i", "g", "n", "é">>

\* `x IS NULL OR x = 'Non renseigné'` (verify_data.py 110-111)
IsMissingForVerifier(v) == IsNull(v) \/ v = StrV(VERIFY_SENTINEL)

\* nom_manquant (verify_data.py 110)
nom_manquant(t) ==
    Cardinality({i \in 1 .. Len(t.rows) :
                    IsMissingForVerifier(t.rows[i]["product_name"])})

\* marque_manquante (verify_data.py 111)
marque_manquante(t) ==
    Cardinality({i \in 1 .. Len(t.rows) :
                    IsMissingForVerifier(t.rows[i]["brands"])})

\* the brands grouped for the top-brands list (verify_data.py 89-98), before
\* LIMIT 5
TopBrands(t) ==
    {t.rows[i]["brands"] : i \in {j \in 1 .. Len(t.rows) :
                                     ~IsMissingForVerifier(t.rows[j]["brands"])}}

\* C24 (as stated): for a product whose product_name or brands was missing,
\* the cleaned table holds in that column exactly the string the verifier
\* compares against, so the product is counted in nom_manquant or
\* marque_manquante and its brand is not in the top-brands list.
C24_SentinelAgreesWithVerifier ==
    (cpc = "cleaned" /\ "code" \in df.cols)
        => LET kept == FirstOccurrences(df).rows
               missing(c) == {k \in 1 .. Len(kept) : IsNull(kept[k][c])}
           IN  /\ "product_name" \in df.cols
                     => /\ \A k \in missing("product_name") :
                              df_clean.rows[k]["product_name"] = StrV(VERIFY_SENTINEL)
                        /\ nom_manquant(df_clean)
                              >= Cardinality(missing("product_name"))
               /\ "brands" \in df.cols
                     => /\ \A k \in missing("brands") :
                              /\ df_clean.rows[k]["brands"] = StrV(VERIFY_SENTINEL)
                              /\ df_clean.rows[k]["brands"] \notin TopBrands(df_clean)
                        /\ marque_manquante(df_clean)
                              >= Cardinality(missing("brands"))

====
